---- MODULE Spec2Model ----
(***************************************************************************)
(* The fusion scheduling engine of mmf/models/multitaskvilbert.py:         *)
(* BertEncoder.__init__ and BertEncoder.forward (the walk over the text    *)
(* stack, the visual stack and the connection stack), the part of          *)
(* ViLBERTBase.forward that calls it and takes the final sequences, and    *)
(* the pooled-vector combination of ViLBERTExpert / BertPreTrainingHeads.  *)
(*                                                                         *)
(* A tensor is modelled by what the scheduler decides about it: the        *)
(* examples along its batch axis (batch, a sequence of example ids) and    *)
(* the layers that have been applied to it, in order (hist).  A mask is    *)
(* modelled by its batch axis and, for the additive bias computed from     *)
(* it, by one row of values.  frame.executed is the log of layer and       *)
(* fusion-block calls that completed, with their execution mode,           *)
(* frame.executed_in the schedule entry each of them ran in (the number of *)
(* entries for the calls made after the loop), frame.fusion_inputs the     *)
(* batch sizes each fusion block was called with, frame.gating_inputs what *)
(* each visual layer was handed for its gate, and frame.reconciled what    *)
(* each batch reconciliation step found and left.  A tensor also carries   *)
(* its length and width, and for each fusion block that produced it, whose *)
(* queries, keys and mask the attention used (fused).                      *)
(***************************************************************************)
EXTENDS Integers, Sequences, FiniteSets, TLC

\* Bounds of the model.
MaxLayers == 2
MaxSched == 2
MaxBatch == 2
MaxWords == 2

Depths == 0..MaxLayers
Schedules == UNION {[1..n -> Depths] : n \in 0..MaxSched}
FusionMethods == {"sum", "mul", "xor"}
HiddenSizes == {4, 6}
HeadCounts == {2, 3}
Dtypes == {"float32", "float16", "bfloat16"}
Masks == UNION {[1..n -> {0, 1}] : n \in 1..MaxWords}

VARIABLES
    config,     \* the BertConfig handed to the constructors
    call,       \* the pending call: entry point, batch sizes, masks, output flags
    encoder,    \* the fields of the BertEncoder instance
    pc,         \* position of the control flow
    frame,      \* the locals of BertEncoder.forward
    ret,        \* what ViLBERTBase.forward returns
    previous    \* the calls already made on this encoder, and the log of the last

vars == <<config, call, encoder, pc, frame, ret, previous>>

----------------------------------------------------------------------------
\* Helpers

Min(a, b) == IF a <= b THEN a ELSE b

Ids(n) == [i \in 1..n |-> i]

\* A batch axis of length 1 or n viewed with length n.
BroadcastBatch(ids, n) ==
    IF Len(ids) = n THEN ids ELSE [i \in 1..n |-> ids[1]]

NoTensor ==
    [stream |-> "", batch |-> <<>>, len |-> 0, width |-> 0, hist |-> <<>>, fused |-> <<>>]

Op(k, i, g) == [k |-> k, i |-> i, g |-> g]
Exec(k, i, mode) == [k |-> k, i |-> i, mode |-> mode]

Raise(f, e) == [f EXCEPT !.err = e]

----------------------------------------------------------------------------
\* Configurations and calls explored

MkConfig(Lt, Lv, tl, vl, ft, fv, co, pairs, fast, dyn, fm) ==
    [num_hidden_layers |-> Lt, v_num_hidden_layers |-> Lv,
     t_biattention_id |-> tl, v_biattention_id |-> vl,
     fixed_t_layer |-> ft, fixed_v_layer |-> fv,
     with_coattention |-> co, in_batch_pairs |-> pairs, fast_mode |-> fast,
     dynamic_attention |-> dyn, fusion_method |-> fm,
     hidden_size |-> 4, num_attention_heads |-> 2,
     v_hidden_size |-> 4, v_num_attention_heads |-> 2,
     bi_hidden_size |-> 4, bi_num_attention_heads |-> 2,
     dtype |-> "float32", visualization |-> FALSE]

\* The hidden sizes and head counts of the three attention families.
WithSizes(c, hs, nh, vhs, vnh, bhs, bnh) ==
    [c EXCEPT !.hidden_size = hs, !.num_attention_heads = nh,
              !.v_hidden_size = vhs, !.v_num_attention_heads = vnh,
              !.bi_hidden_size = bhs, !.bi_num_attention_heads = bnh]

MkCall(entry, bt, bv, all) ==
    [entry |-> entry, txt_batch |-> bt, img_batch |-> bv,
     output_all_encoded_layers |-> all,
     attention_mask |-> <<1>>, image_attention_mask |-> <<1>>,
     co_attention_mask |-> 0,
     output_all_attention_masks |-> FALSE,
     calls |-> 1]

\* Both streams fuse at the same depths and freeze the same number of
\* layers; the stack depths are independent.  One example per stream.
AlignedScenarios ==
    {<<MkConfig(Lt, Lv, s, s, fx, fx, co, FALSE, FALSE, FALSE, "sum"),
       MkCall("ViLBERTBase", 1, 1, all)>> :
        Lt \in Depths, Lv \in Depths, s \in Schedules, fx \in Depths,
        co \in BOOLEAN, all \in BOOLEAN}

\* The two frozen boundaries are independent; full stacks.
BoundaryScenarios ==
    {<<MkConfig(MaxLayers, MaxLayers, s, s, ft, fv, co, FALSE, FALSE, FALSE, "sum"),
       MkCall("ViLBERTBase", 1, 1, all)>> :
        s \in Schedules, ft \in Depths, fv \in Depths,
        co \in BOOLEAN, all \in BOOLEAN}

\* The two depth lists are independent (different checkpoints, different
\* lengths); full stacks, nothing frozen.
SkewedScenarios ==
    {<<MkConfig(MaxLayers, MaxLayers, tl, vl, 0, 0, co, FALSE, FALSE, FALSE, "sum"),
       MkCall("ViLBERTBase", 1, 1, TRUE)>> :
        tl \in Schedules, vl \in Schedules, co \in BOOLEAN}

\* Every combination of the batch flags and batch sizes, for every schedule
\* length.
BatchScenarios ==
    {<<MkConfig(MaxLayers, MaxLayers, [i \in 1..n |-> 1], [i \in 1..n |-> 1], 0, 0,
                co, pairs, fast, dyn, "sum"),
       MkCall("ViLBERTBase", bt, bv, all)>> :
        n \in 0..MaxSched, co \in BOOLEAN, pairs \in BOOLEAN, fast \in BOOLEAN,
        dyn \in BOOLEAN, bt \in 1..MaxBatch, bv \in 1..MaxBatch, all \in BOOLEAN}

\* The task heads that combine the pooled vectors.
HeadScenarios ==
    {<<MkConfig(Lt, Lv, s, s, 0, 0, TRUE, FALSE, FALSE, FALSE, fm),
       MkCall(entry, 1, 1, FALSE)>> :
        Lt \in Depths, Lv \in Depths, s \in {<<>>, <<1>>}, fm \in FusionMethods,
        entry \in {"ViLBERTExpert", "BertPreTrainingHeads"}}

\* Every combination of hidden sizes and head counts, for empty and full
\* stacks and for an empty and a one-entry schedule.
SizeScenarios ==
    {<<WithSizes(MkConfig(L, L, s, s, 0, 0, TRUE, FALSE, FALSE, FALSE, "sum"),
                 hs, nh, vhs, vnh, bhs, bnh),
       MkCall("ViLBERTBase", 1, 1, FALSE)>> :
        L \in {0, MaxLayers}, s \in {<<>>, <<1>>},
        hs \in HiddenSizes, nh \in HeadCounts,
        vhs \in HiddenSizes, vnh \in HeadCounts,
        bhs \in HiddenSizes, bnh \in HeadCounts}

\* Every 0/1 mask row of each stream, for every dtype of the parameters.
MaskScenarios ==
    {<<[MkConfig(1, 1, <<1>>, <<1>>, 0, 0, TRUE, FALSE, FALSE, FALSE, "sum")
            EXCEPT !.dtype = d],
       [MkCall("ViLBERTBase", 1, 1, FALSE)
            EXCEPT !.attention_mask = m, !.image_attention_mask = vm]>> :
        d \in Dtypes, m \in Masks, vm \in Masks}

\* Attention diagnostics built or not, asked for or not, on every schedule,
\* with and without a frozen layer.
DiagnosticScenarios ==
    {<<[MkConfig(MaxLayers, MaxLayers, s, s, fx, fx, co, FALSE, FALSE, FALSE, "sum")
            EXCEPT !.visualization = vis],
       [MkCall("ViLBERTBase", 1, 1, FALSE)
            EXCEPT !.output_all_attention_masks = masks]>> :
        s \in Schedules, fx \in {0, 1}, co \in BOOLEAN,
        vis \in BOOLEAN, masks \in BOOLEAN}

\* The fusion block on streams of different lengths, widths and batch
\* sizes, with a zero and a non-zero co-attention mask.
FusionScenarios ==
    {<<WithSizes(MkConfig(MaxLayers, MaxLayers, s, s, 0, 0, TRUE, FALSE, FALSE, FALSE, "sum"),
                 hs, 2, vhs, 2, 4, 2),
       [MkCall("ViLBERTBase", bt, bv, FALSE)
            EXCEPT !.attention_mask = [i \in 1..W |-> 1],
                   !.image_attention_mask = [i \in 1..R |-> 1],
                   !.co_attention_mask = cm]>> :
        s \in {<<1>>, <<1, 1>>}, hs \in HiddenSizes, vhs \in HiddenSizes,
        bt \in 1..MaxBatch, bv \in 1..MaxBatch,
        W \in 1..MaxWords, R \in 1..MaxWords, cm \in {0, 1}}

\* The caller runs the forward pass twice on the same model with the same
\* inputs.
RepeatScenarios ==
    {<<MkConfig(MaxLayers, MaxLayers, s, s, fx, fx, co, pairs, FALSE, FALSE, "sum"),
       [MkCall("ViLBERTBase", b, b, FALSE) EXCEPT !.calls = 2]>> :
        s \in Schedules, fx \in {0, 1}, co \in BOOLEAN, pairs \in BOOLEAN,
        b \in 1..MaxBatch}

\* The slices explored, one after the other.
Scenarios ==
    <<AlignedScenarios, BoundaryScenarios, SkewedScenarios, BatchScenarios,
      HeadScenarios, SizeScenarios, MaskScenarios, DiagnosticScenarios,
      FusionScenarios, RepeatScenarios>>

NoEncoder ==
    [built |-> FALSE, FAST_MODE |-> FALSE, with_coattention |-> FALSE,
     v_biattention_id |-> <<>>, t_biattention_id |-> <<>>,
     in_batch_pairs |-> FALSE, fixed_t_layer |-> 0, fixed_v_layer |-> 0,
     layer |-> 0, v_layer |-> 0, c_layer |-> 0]

NoFrame ==
    [v_start |-> 0, t_start |-> 0, count |-> 0,
     all_encoder_layers_t |-> <<>>, all_encoder_layers_v |-> <<>>,
     batch_size |-> 0,
     txt_embedding |-> NoTensor, image_embedding |-> NoTensor,
     txt_attention_mask |-> <<>>, txt_attention_mask2 |-> <<>>,
     image_attention_mask |-> <<>>, co_attention_mask |-> <<>>,
     output_all_encoded_layers |-> FALSE,
     extended_attention_mask |-> <<>>, extended_image_attention_mask |-> <<>>,
     output_all_attention_masks |-> FALSE,
     extended_co_attention_mask |-> 0, use_co_attention_mask |-> FALSE,
     reconciled |-> <<>>, gating_inputs |-> <<>>, executed_in |-> <<>>,
     all_attention_mask_t |-> <<>>, all_attnetion_mask_v |-> <<>>,
     all_attention_mask_c |-> <<>>,
     executed |-> <<>>, appends |-> <<>>, fusion_inputs |-> <<>>, err |-> ""]

\* None in the place of the three diagnostic lists.
NoDiagnostics == [none |-> TRUE, t |-> <<>>, v |-> <<>>, c |-> <<>>]

NoRet ==
    [sequence_output_t |-> NoTensor, sequence_output_v |-> NoTensor,
     pooled_output_t |-> <<>>, pooled_output_v |-> <<>>,
     encoded_layers_t_output |-> <<>>, encoded_layers_v_output |-> <<>>,
     all_attention_mask_output |-> NoDiagnostics]

NoPrevious == [calls |-> 0, executed |-> <<>>]

Init ==
    /\ \E n \in DOMAIN Scenarios : \E sc \in Scenarios[n] :
            config = sc[1] /\ call = sc[2]
    /\ encoder = NoEncoder
    /\ pc = "new"
    /\ frame = NoFrame
    /\ ret = NoRet
    /\ previous = NoPrevious

----------------------------------------------------------------------------
\* The layers, as the scheduler sees them

\* Sizes that broadcast together: at most one size other than 1.
BroadcastOK(S) == Cardinality(S \ {1}) <= 1
BroadcastLen(S) == CHOOSE n \in S : \A m \in S : m <= n

\* BertLayer.forward / forward_no_grad: the scores of the sequence are added
\* to the mask, the result is added to the sequence (residual).
BertLayer_forward(f, idx, mode) ==
    LET sizes == {Len(f.txt_embedding.batch), Len(f.txt_attention_mask)}
    IN IF ~BroadcastOK(sizes) THEN Raise(f, "RuntimeError")
       ELSE [f EXCEPT
                !.txt_embedding.batch = BroadcastBatch(@, BroadcastLen(sizes)),
                !.txt_embedding.hist = Append(@, Op("t", idx, -1)),
                !.executed = Append(@, Exec("t", idx, mode)),
                !.executed_in = Append(@, f.count)]

\* BertImageLayer.forward / forward_no_grad.  With dynamic attention the
\* query and key are scaled by a gate pooled from txt_embedding and
\* txt_attention_mask2; g records the text state that gates the layer.
BertImageLayer_forward(f, idx, mode) ==
    LET pool == {Len(f.txt_embedding.batch), Len(f.txt_attention_mask2)}
        own == {Len(f.image_embedding.batch), Len(f.image_attention_mask)}
        sizes == IF config.dynamic_attention THEN own \cup pool ELSE own
        gate == IF config.dynamic_attention THEN Len(f.txt_embedding.hist) ELSE -1
        called == [f EXCEPT !.gating_inputs =
                      Append(@, [i |-> idx,
                                 txt_embedding |-> Len(f.txt_embedding.batch),
                                 txt_attention_mask |-> Len(f.txt_attention_mask2),
                                 hidden_states |-> Len(f.image_embedding.batch),
                                 reconciled |-> Len(f.reconciled),
                                 count |-> f.count,
                                 state |-> Len(f.txt_embedding.hist)])]
    IN IF config.dynamic_attention /\ ~BroadcastOK(pool)
       THEN Raise(called, "RuntimeError")
       ELSE IF ~BroadcastOK(sizes) THEN Raise(called, "RuntimeError")
       ELSE [called EXCEPT
                !.image_embedding.batch = BroadcastBatch(@, BroadcastLen(sizes)),
                !.image_embedding.hist = Append(@, Op("v", idx, gate)),
                !.executed = Append(@, Exec("v", idx, mode)),
                !.executed_in = Append(@, f.count)]

\* A mask as an attention module receives it: the stream it belongs to and
\* its batch axis.
MaskOf(stream, ids) == [stream |-> stream, batch |-> ids]

\* BertBiAttention.forward.  context_layer1 comes from the queries of input 2
\* over the keys and values of input 1, with attention_mask1 added to the
\* scores; context_layer2 the other way round.  The two lines that would add
\* co_attention_mask to the scores are comments, so nothing of it is added
\* (co_bias), whatever use_co_attention_mask says.
BertBiAttention_forward(input_tensor1, attention_mask1, input_tensor2, attention_mask2, co_attention_mask, use_co_attention_mask) ==
    LET sizes1 == {Len(input_tensor2.batch), Len(input_tensor1.batch),
                   Len(attention_mask1.batch)}
        sizes2 == {Len(input_tensor1.batch), Len(input_tensor2.batch),
                   Len(attention_mask2.batch)}
    IN [ok |-> BroadcastOK(sizes1) /\ BroadcastOK(sizes2),
        context_layer1 |->
            [queries |-> input_tensor2.stream, keys |-> input_tensor1.stream,
             mask |-> attention_mask1.stream, co_bias |-> 0,
             batch |-> BroadcastLen(sizes1), len |-> input_tensor2.len],
        context_layer2 |->
            [queries |-> input_tensor1.stream, keys |-> input_tensor2.stream,
             mask |-> attention_mask2.stream, co_bias |-> 0,
             batch |-> BroadcastLen(sizes2), len |-> input_tensor1.len]]

\* LayerNorm(dense(hidden_states) + input_tensor): the context, brought to
\* width by the dense layer, is added to the residual input.
AddResidual(hidden_states, width, input_tensor, idx) ==
    LET batches == {hidden_states.batch, Len(input_tensor.batch)}
        lens == {hidden_states.len, input_tensor.len}
    IN [ok |-> BroadcastOK(batches) /\ BroadcastOK(lens) /\ width = input_tensor.width,
        out |-> [input_tensor EXCEPT
                    !.batch = BroadcastBatch(@, BroadcastLen(batches)),
                    !.len = BroadcastLen(lens),
                    !.width = width,
                    !.fused = Append(@, [i |-> idx,
                                         queries |-> hidden_states.queries,
                                         keys |-> hidden_states.keys,
                                         mask |-> hidden_states.mask,
                                         co_bias |-> hidden_states.co_bias,
                                         residual |-> input_tensor.stream,
                                         input_batch |-> Len(input_tensor.batch),
                                         output_batch |-> BroadcastLen(batches)])]]

\* BertBiOutput.forward: dense1 and LayerNorm1 have the visual width, dense2
\* and LayerNorm2 the text width.
BertBiOutput_forward(hidden_states1, input_tensor1, hidden_states2, input_tensor2, idx) ==
    [hidden_states1 |->
        AddResidual(hidden_states1, config.v_hidden_size, input_tensor1, idx),
     hidden_states2 |->
        AddResidual(hidden_states2, config.hidden_size, input_tensor2, idx)]

\* self.biOutput(bi_output2, input_tensor1, bi_output1, input_tensor2).
BiOutputArguments(bi) ==
    [hidden_states1 |-> bi.context_layer2, hidden_states2 |-> bi.context_layer1]

\* BertConnectionLayer.forward, called by the encoder with the image stream
\* as input 1 and the text stream as input 2; its two outputs become
\* image_embedding and txt_embedding.
BertConnectionLayer_forward(f, idx) ==
    LET bi == BertBiAttention_forward(
                  f.image_embedding, MaskOf("v", f.image_attention_mask),
                  f.txt_embedding, MaskOf("t", f.txt_attention_mask),
                  f.extended_co_attention_mask, f.use_co_attention_mask)
        args == BiOutputArguments(bi)
        out == BertBiOutput_forward(args.hidden_states1, f.image_embedding,
                                    args.hidden_states2, f.txt_embedding, idx)
    IN IF ~bi.ok \/ ~out.hidden_states1.ok \/ ~out.hidden_states2.ok
       THEN Raise(f, "RuntimeError")
       ELSE [f EXCEPT
                !.image_embedding =
                    [out.hidden_states1.out EXCEPT
                        !.hist = Append(@, Op("c", idx, Len(f.txt_embedding.hist)))],
                !.txt_embedding =
                    [out.hidden_states2.out EXCEPT
                        !.hist = Append(@, Op("c", idx, Len(f.image_embedding.hist)))],
                !.executed = Append(@, Exec("c", idx, "grad")),
                !.executed_in = Append(@, f.count),
                !.fusion_inputs = Append(@, [txt |-> Len(f.txt_embedding.batch),
                                             img |-> Len(f.image_embedding.batch)])]

\* Variant: the attention record is filled whatever visualization says.
AttnData_always(keys) == keys

\* The attention record a layer returns: filled only with visualization.
AttnData(keys) == IF config.visualization THEN keys ELSE {}

\* The appends to the diagnostic lists that follow a layer call; the entry
\* is the index of the layer whose probabilities were appended.
CollectText(f, idx) ==
    IF f.err = "" /\ f.output_all_attention_masks
        /\ "attn" \in AttnData({"attn", "queries", "keys"})
    THEN [f EXCEPT !.all_attention_mask_t = Append(@, idx)] ELSE f

CollectVisual(f, idx) ==
    IF f.err = "" /\ f.output_all_attention_masks
        /\ "attn" \in AttnData({"attn", "queries", "keys"})
    THEN [f EXCEPT !.all_attnetion_mask_v = Append(@, idx)] ELSE f

CollectFusion(f, idx) ==
    LET co_attention_probs ==
            AttnData({"attn1", "queries1", "keys1", "attn2", "querues2", "keys2"})
    IN IF f.err = "" /\ f.output_all_attention_masks
           /\ "attn1" \in co_attention_probs /\ "attn2" \in co_attention_probs
       THEN [f EXCEPT !.all_attention_mask_c = Append(@, idx)] ELSE f

----------------------------------------------------------------------------
\* BertEncoder.forward, one loop at a time

\* zip(self.v_biattention_id, self.t_biattention_id) stops at the shorter list.
ScheduleLen == Min(Len(encoder.v_biattention_id), Len(encoder.t_biattention_id))

\* Variant: the visual boundary is not checked.
AssertsHold_textOnly(t_end, v_end) ==
    encoder.fixed_t_layer <= t_end

AssertsHold(t_end, v_end) ==
    /\ encoder.fixed_t_layer <= t_end
    /\ encoder.fixed_v_layer <= v_end

CheckBoundaries(f, t_end, v_end) ==
    IF f.err # "" THEN f
    ELSE IF AssertsHold(t_end, v_end) THEN f ELSE Raise(f, "AssertionError")

RECURSIVE TextFrozenLoop(_, _)
TextFrozenLoop(f, cur_idx) ==
    IF f.err # "" \/ cur_idx >= encoder.layer THEN f
    ELSE IF f.t_start <= cur_idx /\ cur_idx < encoder.fixed_t_layer
         THEN LET g == CollectText(BertLayer_forward(f, cur_idx, "no_grad"), cur_idx)
              IN TextFrozenLoop(IF g.err # "" THEN g
                                ELSE [g EXCEPT !.t_start = encoder.fixed_t_layer],
                                cur_idx + 1)
         ELSE TextFrozenLoop(f, cur_idx + 1)

RECURSIVE TextTrainLoop(_, _, _)
TextTrainLoop(f, cur_idx, t_end) ==
    IF f.err # "" \/ cur_idx >= encoder.layer THEN f
    ELSE IF f.t_start <= cur_idx /\ cur_idx < t_end
         THEN TextTrainLoop(CollectText(BertLayer_forward(f, cur_idx, "grad"), cur_idx),
                            cur_idx + 1, t_end)
         ELSE TextTrainLoop(f, cur_idx + 1, t_end)

RECURSIVE VisualFrozenLoop(_, _)
VisualFrozenLoop(f, cur_v_idx) ==
    IF f.err # "" \/ cur_v_idx >= encoder.v_layer THEN f
    ELSE IF f.v_start <= cur_v_idx /\ cur_v_idx < encoder.fixed_v_layer
         THEN LET g == CollectVisual(BertImageLayer_forward(f, cur_v_idx, "no_grad"),
                                     cur_v_idx)
              IN VisualFrozenLoop(IF g.err # "" THEN g
                                  ELSE [g EXCEPT !.v_start = encoder.fixed_v_layer],
                                  cur_v_idx + 1)
         ELSE VisualFrozenLoop(f, cur_v_idx + 1)

RECURSIVE VisualTrainLoop(_, _, _)
VisualTrainLoop(f, cur_v_idx, v_end) ==
    IF f.err # "" \/ cur_v_idx >= encoder.v_layer THEN f
    ELSE IF f.v_start <= cur_v_idx /\ cur_v_idx < v_end
         THEN VisualTrainLoop(CollectVisual(BertImageLayer_forward(f, cur_v_idx, "grad"),
                                            cur_v_idx),
                              cur_v_idx + 1, v_end)
         ELSE VisualTrainLoop(f, cur_v_idx + 1, v_end)

\* x.unsqueeze(0).expand(B, B, ...).view(B * B, ...): entry j*B+k is x[k].
ExpandInner(ids, B) ==
    [n \in 1..(B * B) |-> ids[IF Len(ids) = 1 THEN 1 ELSE ((n - 1) % B) + 1]]

\* Variant: the new axis is put in front, as for the image stream.
ExpandOuter_inner(ids, B) ==
    [n \in 1..(B * B) |-> ids[IF Len(ids) = 1 THEN 1 ELSE ((n - 1) % B) + 1]]

\* x.unsqueeze(1).expand(B, B, ...).view(B * B, ...): entry j*B+k is x[j].
ExpandOuter(ids, B) ==
    [n \in 1..(B * B) |-> ids[IF Len(ids) = 1 THEN 1 ELSE ((n - 1) \div B) + 1]]

\* expand accepts an axis of the target size or of size 1.
Expandable(ids, n) == Len(ids) = n \/ Len(ids) = 1

\* What a batch reconciliation step found and what it left: the entry it ran
\* in, the number of layer and fusion calls made before it, and the batch axes
\* of the streams and masks before and after.
Reconciliation(step, f, g) ==
    [step |-> step, count |-> f.count, position |-> Len(f.executed),
     txt |-> f.txt_embedding.batch, txt_mask |-> f.txt_attention_mask,
     img |-> f.image_embedding.batch, img_mask |-> f.image_attention_mask,
     txt_out |-> g.txt_embedding.batch, txt_mask_out |-> g.txt_attention_mask,
     img_out |-> g.image_embedding.batch, img_mask_out |-> g.image_attention_mask,
     raised |-> g.err # ""]

Reconciled(step, f, g) ==
    [g EXCEPT !.reconciled = Append(@, Reconciliation(step, f, g))]

\* Variant: only the visual stream and its mask are expanded.
InBatchPairs_visualOnly(f) ==
    IF f.err # "" \/ ~(f.count = 0 /\ encoder.in_batch_pairs) THEN f
    ELSE LET B == f.batch_size
         IN IF ~(/\ Expandable(f.image_embedding.batch, B)
                 /\ Expandable(f.image_attention_mask, B))
            THEN Reconciled("in_batch_pairs", f, Raise(f, "RuntimeError"))
            ELSE Reconciled("in_batch_pairs", f,
                 [f EXCEPT
                    !.image_embedding.batch = ExpandInner(@, B),
                    !.image_attention_mask = ExpandInner(@, B)])

InBatchPairs(f) ==
    IF f.err # "" \/ ~(f.count = 0 /\ encoder.in_batch_pairs) THEN f
    ELSE LET B == f.batch_size
         IN IF ~(/\ Expandable(f.image_embedding.batch, B)
                 /\ Expandable(f.image_attention_mask, B)
                 /\ Expandable(f.txt_embedding.batch, B)
                 /\ Expandable(f.txt_attention_mask, B)
                 /\ Expandable(f.co_attention_mask, B))
            THEN Reconciled("in_batch_pairs", f, Raise(f, "RuntimeError"))
            ELSE Reconciled("in_batch_pairs", f,
                 [f EXCEPT
                    !.image_embedding.batch = ExpandInner(@, B),
                    !.image_attention_mask = ExpandInner(@, B),
                    !.txt_embedding.batch = ExpandOuter(@, B),
                    !.txt_attention_mask = ExpandOuter(@, B),
                    !.co_attention_mask = ExpandOuter(@, B)])

\* Variant: the text sequence is expanded and its mask is left alone.
FastMode_textOnly(f) ==
    IF f.err # "" \/ ~(f.count = 0 /\ encoder.FAST_MODE) THEN f
    ELSE LET N == Len(f.image_embedding.batch)
         IN IF ~Expandable(f.txt_embedding.batch, N)
            THEN Reconciled("fast_mode", f, Raise(f, "RuntimeError"))
            ELSE Reconciled("fast_mode", f,
                 [f EXCEPT !.txt_embedding.batch = BroadcastBatch(@, N)])

FastMode(f) ==
    IF f.err # "" \/ ~(f.count = 0 /\ encoder.FAST_MODE) THEN f
    ELSE LET N == Len(f.image_embedding.batch)
         IN IF ~(/\ Expandable(f.txt_embedding.batch, N)
                 /\ Expandable(f.txt_attention_mask, N))
            THEN Reconciled("fast_mode", f, Raise(f, "RuntimeError"))
            ELSE Reconciled("fast_mode", f,
                 [f EXCEPT
                    !.txt_embedding.batch = BroadcastBatch(@, N),
                    !.txt_attention_mask = BroadcastBatch(@, N)])

\* Variant: the block chosen is the first one, whatever the entry.
RECURSIVE CoAttentionLoop_first(_, _)
CoAttentionLoop_first(f, cur_c_idx) ==
    IF f.err # "" \/ cur_c_idx >= encoder.c_layer THEN f
    ELSE IF cur_c_idx = 0
         THEN CoAttentionLoop_first(CollectFusion(BertConnectionLayer_forward(f, cur_c_idx),
                                                  cur_c_idx),
                                    cur_c_idx + 1)
         ELSE CoAttentionLoop_first(f, cur_c_idx + 1)

RECURSIVE CoAttentionLoop(_, _)
CoAttentionLoop(f, cur_c_idx) ==
    IF f.err # "" \/ cur_c_idx >= encoder.c_layer THEN f
    ELSE IF cur_c_idx = f.count
         THEN CoAttentionLoop(CollectFusion(BertConnectionLayer_forward(f, cur_c_idx),
                                            cur_c_idx),
                              cur_c_idx + 1)
         ELSE CoAttentionLoop(f, cur_c_idx + 1)

\* Variant: the connection stack runs whatever with_coattention says.
CoAttention_unguarded(f) ==
    IF f.err # "" THEN f
    ELSE CoAttentionLoop(f, 0)

CoAttention(f) ==
    IF f.err # "" \/ ~encoder.with_coattention THEN f
    ELSE CoAttentionLoop(f, 0)

Snapshot(f, kind) ==
    [f EXCEPT
        !.all_encoder_layers_t = Append(@, f.txt_embedding),
        !.all_encoder_layers_v = Append(@, f.image_embedding),
        !.appends = Append(@, [kind |-> kind, at |-> Len(f.executed)])]

\* Variant: the entry counter is not advanced.
EntryEnd_stuck(f, t_end, v_end) ==
    IF f.err # "" THEN f
    ELSE LET g == [f EXCEPT !.v_start = v_end, !.t_start = t_end]
         IN IF g.output_all_encoded_layers THEN Snapshot(g, "entry") ELSE g

EntryEnd(f, t_end, v_end) ==
    IF f.err # "" THEN f
    ELSE LET g == [f EXCEPT !.v_start = v_end, !.t_start = t_end, !.count = @ + 1]
         IN IF g.output_all_encoded_layers THEN Snapshot(g, "entry") ELSE g

RECURSIVE TailVisualLoop(_, _)
TailVisualLoop(f, cur_v_idx) ==
    IF f.err # "" \/ cur_v_idx >= encoder.v_layer THEN f
    ELSE IF cur_v_idx >= f.v_start
         THEN TailVisualLoop(CollectVisual(BertImageLayer_forward(f, cur_v_idx, "grad"),
                                           cur_v_idx),
                             cur_v_idx + 1)
         ELSE TailVisualLoop(f, cur_v_idx + 1)

RECURSIVE TailTextLoop(_, _)
TailTextLoop(f, cur_idx) ==
    IF f.err # "" \/ cur_idx >= encoder.layer THEN f
    ELSE IF cur_idx >= f.t_start
         THEN TailTextLoop(CollectText(BertLayer_forward(f, cur_idx, "grad"), cur_idx),
                           cur_idx + 1)
         ELSE TailTextLoop(f, cur_idx + 1)

\* Variant: the final append is made whatever was asked.
Finish_always(f) ==
    IF f.err # "" THEN f
    ELSE Snapshot(f, "final")

Finish(f) ==
    IF f.err # "" THEN f
    ELSE IF ~f.output_all_encoded_layers THEN Snapshot(f, "final") ELSE f

----------------------------------------------------------------------------
\* Actions

\* Variant: a layer is constructed only for a stack that has one, so its
\* constructor's check is not reached for an empty stack.
PrototypesBuilt_lazy(c) ==
    /\ c.num_hidden_layers >= 1 => c.hidden_size % c.num_attention_heads = 0
    /\ c.v_num_hidden_layers >= 1 => c.v_hidden_size % c.v_num_attention_heads = 0
    /\ Len(c.v_biattention_id) >= 1 => c.bi_hidden_size % c.bi_num_attention_heads = 0

\* BertLayer(config), BertImageLayer(config) and BertConnectionLayer(config)
\* are constructed once each, whatever the depths: the constructors of
\* BertSelfAttention, BertImageSelfAttention and BertBiAttention return only
\* if the hidden size is a multiple of the head count.
PrototypesBuilt(c) ==
    /\ c.hidden_size % c.num_attention_heads = 0
    /\ c.v_hidden_size % c.v_num_attention_heads = 0
    /\ c.bi_hidden_size % c.bi_num_attention_heads = 0

\* BertEncoder.__init__: copies the configuration, constructs one layer of
\* each kind and builds the three stacks from copies of them.  It checks
\* nothing about the depth lists.
BertEncoder_init ==
    /\ pc = "new"
    /\ IF PrototypesBuilt(config)
       THEN /\ encoder' =
                 [built |-> TRUE,
                  FAST_MODE |-> config.fast_mode,
                  with_coattention |-> config.with_coattention,
                  v_biattention_id |-> config.v_biattention_id,
                  t_biattention_id |-> config.t_biattention_id,
                  in_batch_pairs |-> config.in_batch_pairs,
                  fixed_t_layer |-> config.fixed_t_layer,
                  fixed_v_layer |-> config.fixed_v_layer,
                  layer |-> config.num_hidden_layers,
                  v_layer |-> config.v_num_hidden_layers,
                  c_layer |-> Len(config.v_biattention_id)]
            /\ pc' = "constructed"
            /\ frame' = frame
       ELSE /\ encoder' = encoder
            /\ pc' = "failed"
            /\ frame' = Raise(frame, "ValueError")
    /\ UNCHANGED <<config, call, ret, previous>>

\* ViLBERTExpert.forward always asks for the final layer only.
RequestedAllLayers ==
    IF call.entry = "ViLBERTExpert" THEN FALSE ELSE call.output_all_encoded_layers

\* Bits of significand of a floating-point dtype, the hidden bit included.
SignificandBits(dtype) ==
    CASE dtype = "float32" -> 24
      [] dtype = "float16" -> 11
      [] dtype = "bfloat16" -> 8

RECURSIVE BitLength(_)
BitLength(a) == IF a = 0 THEN 0 ELSE 1 + BitLength(a \div 2)

\* The value of dtype nearest to the integer x (ties to even).
ToDtype(x, dtype) ==
    LET a == IF x < 0 THEN -x ELSE x
        drop == BitLength(a) - SignificandBits(dtype)
        ulp == 2 ^ drop
        q == a \div ulp
        r == a % ulp
        up == 2 * r > ulp \/ (2 * r = ulp /\ q % 2 = 1)
        m == IF up THEN (q + 1) * ulp ELSE q * ulp
    IN IF drop <= 0 THEN x ELSE IF x < 0 THEN -m ELSE m

\* Variant: the mask itself is scaled.
ExtendedMask_unflipped(mask, dtype) ==
    [i \in DOMAIN mask |-> ToDtype(ToDtype(mask[i], dtype) * (-10000), dtype)]

\* (1.0 - mask.to(dtype)) * -10000.0, computed in dtype.
ExtendedMask(mask, dtype) ==
    [i \in DOMAIN mask |->
        ToDtype(ToDtype(1 - ToDtype(mask[i], dtype), dtype) * (-10000), dtype)]

\* ViLBERTBase.forward up to the call of the encoder (masks and embeddings),
\* and the first lines of BertEncoder.forward.
\* Variant: the walk resumes where the call before left its cursors.
StartCursors_resumed(f) ==
    [v_start |-> f.v_start, t_start |-> f.t_start, count |-> f.count]

\* v_start = 0, t_start = 0, count = 0: locals of the call, whatever the
\* frame f of an earlier call held.
StartCursors(f) == [v_start |-> 0, t_start |-> 0, count |-> 0]

ForwardBegin ==
    /\ pc = "constructed"
    /\ frame' =
         [v_start |-> StartCursors(frame).v_start,
          t_start |-> StartCursors(frame).t_start,
          count |-> StartCursors(frame).count,
          all_encoder_layers_t |-> <<>>, all_encoder_layers_v |-> <<>>,
          batch_size |-> call.txt_batch,
          txt_embedding |->
              [stream |-> "t", batch |-> Ids(call.txt_batch),
               len |-> Len(call.attention_mask), width |-> config.hidden_size,
               hist |-> <<>>, fused |-> <<>>],
          image_embedding |->
              [stream |-> "v", batch |-> Ids(call.img_batch),
               len |-> Len(call.image_attention_mask), width |-> config.v_hidden_size,
               hist |-> <<>>, fused |-> <<>>],
          txt_attention_mask |-> Ids(call.txt_batch),
          txt_attention_mask2 |-> Ids(call.txt_batch),
          image_attention_mask |-> Ids(call.img_batch),
          co_attention_mask |-> Ids(call.txt_batch),
          output_all_encoded_layers |-> RequestedAllLayers,
          extended_attention_mask |->
              ExtendedMask(call.attention_mask, config.dtype),
          extended_image_attention_mask |->
              ExtendedMask(call.image_attention_mask, config.dtype),
          output_all_attention_masks |-> call.output_all_attention_masks,
          extended_co_attention_mask |-> ToDtype(call.co_attention_mask * 5, config.dtype),
          use_co_attention_mask |-> FALSE,
          reconciled |-> <<>>, gating_inputs |-> <<>>, executed_in |-> <<>>,
          all_attention_mask_t |-> <<>>, all_attnetion_mask_v |-> <<>>,
          all_attention_mask_c |-> <<>>,
          executed |-> <<>>, appends |-> <<>>, fusion_inputs |-> <<>>, err |-> ""]
    /\ pc' = "loop"
    /\ UNCHANGED <<config, call, encoder, ret, previous>>

\* Variant: the fusion block runs at the head of the iteration.
EntryBody_fusionFirst(f, t_end, v_end) ==
    LET f1 == CheckBoundaries(f, t_end, v_end)
        f2 == CoAttention(f1)
        f3 == TextFrozenLoop(f2, 0)
        f4 == TextTrainLoop(f3, 0, t_end)
        f5 == VisualFrozenLoop(f4, 0)
        f6 == VisualTrainLoop(f5, 0, v_end)
        f7 == InBatchPairs(f6)
        f8 == FastMode(f7)
    IN EntryEnd(f8, t_end, v_end)

\* Variant: the visual stream advances to its checkpoint before the text
\* stream does.
EntryBody_visualFirst(f, t_end, v_end) ==
    LET f1 == CheckBoundaries(f, t_end, v_end)
        f2 == VisualFrozenLoop(f1, 0)
        f3 == VisualTrainLoop(f2, 0, v_end)
        f4 == TextFrozenLoop(f3, 0)
        f5 == TextTrainLoop(f4, 0, t_end)
        f6 == InBatchPairs(f5)
        f7 == FastMode(f6)
        f8 == CoAttention(f7)
    IN EntryEnd(f8, t_end, v_end)

\* One iteration of the loop over the zipped depth lists.
EntryBody(f, t_end, v_end) ==
    LET f1 == CheckBoundaries(f, t_end, v_end)
        f2 == TextFrozenLoop(f1, 0)
        f3 == TextTrainLoop(f2, 0, t_end)
        f4 == VisualFrozenLoop(f3, 0)
        f5 == VisualTrainLoop(f4, 0, v_end)
        f6 == InBatchPairs(f5)
        f7 == FastMode(f6)
        f8 == CoAttention(f7)
    IN EntryEnd(f8, t_end, v_end)

ScheduleEntry ==
    /\ pc = "loop"
    /\ frame.count < ScheduleLen
    /\ frame' = EntryBody(frame,
                          encoder.t_biattention_id[frame.count + 1],
                          encoder.v_biattention_id[frame.count + 1])
    /\ pc' = IF frame'.err # "" THEN "failed" ELSE "loop"
    /\ UNCHANGED <<config, call, encoder, ret, previous>>

\* After the loop: the remaining visual layers, the remaining text layers,
\* the final append, the return.
EncoderTail(f) == Finish(TailTextLoop(TailVisualLoop(f, 0), 0))

ScheduleExhausted ==
    /\ pc = "loop"
    /\ frame.count >= ScheduleLen
    /\ frame' = EncoderTail(frame)
    /\ pc' = IF frame'.err # "" THEN "failed" ELSE "returned"
    /\ UNCHANGED <<config, call, encoder, ret, previous>>

\* BertTextPooler / BertImagePooler: one vector per example of the sequence.
Pool(hidden_states) == hidden_states.batch

\* ViLBERTBase.forward after the encoder returned: the last element of each
\* list, the pooled vectors, the optional lists.
ViLBERTBase_return ==
    /\ pc = "returned"
    /\ IF frame.all_encoder_layers_t = <<>> \/ frame.all_encoder_layers_v = <<>>
       THEN /\ frame' = Raise(frame, "IndexError")
            /\ pc' = "failed"
            /\ ret' = ret
       ELSE LET sequence_output_t ==
                    frame.all_encoder_layers_t[Len(frame.all_encoder_layers_t)]
                sequence_output_v ==
                    frame.all_encoder_layers_v[Len(frame.all_encoder_layers_v)]
            IN /\ ret' =
                    [sequence_output_t |-> sequence_output_t,
                     sequence_output_v |-> sequence_output_v,
                     pooled_output_t |-> Pool(sequence_output_t),
                     pooled_output_v |-> Pool(sequence_output_v),
                     encoded_layers_t_output |->
                        IF frame.output_all_encoded_layers
                        THEN frame.all_encoder_layers_t ELSE <<>>,
                     encoded_layers_v_output |->
                        IF frame.output_all_encoded_layers
                        THEN frame.all_encoder_layers_v ELSE <<>>,
                     all_attention_mask_output |->
                        IF frame.output_all_attention_masks
                        THEN [none |-> FALSE,
                              t |-> frame.all_attention_mask_t,
                              v |-> frame.all_attnetion_mask_v,
                              c |-> frame.all_attention_mask_c]
                        ELSE NoDiagnostics]
               /\ pc' = IF call.entry = "ViLBERTBase" THEN "done" ELSE "pooled"
               /\ frame' = frame
    /\ UNCHANGED <<config, call, encoder, previous>>

\* ViLBERTExpert.forward after self.bert returned, and
\* BertPreTrainingHeads.forward: the pooled vectors are combined by
\* fusion_method.
SupportedFusion(fusion_method) == fusion_method \in {"sum", "mul"}

CombinePooled ==
    /\ pc = "pooled"
    /\ IF SupportedFusion(config.fusion_method)
       THEN /\ pc' = "done"
            /\ frame' = frame
       ELSE /\ pc' = "failed"
            /\ frame' = Raise(frame, "AssertionError")
    /\ UNCHANGED <<config, call, encoder, ret, previous>>

\* The caller calls the model again with the same inputs.  The frame of the
\* finished call is garbage the next call cannot see: every local is
\* assigned anew in ForwardBegin.
ForwardAgain ==
    /\ pc = "done"
    /\ previous.calls + 1 < call.calls
    /\ previous' = [calls |-> previous.calls + 1, executed |-> frame.executed]
    /\ pc' = "constructed"
    /\ ret' = NoRet
    /\ UNCHANGED <<config, call, encoder, frame>>

Next ==
    \/ BertEncoder_init
    \/ ForwardBegin
    \/ ScheduleEntry
    \/ ScheduleExhausted
    \/ ViLBERTBase_return
    \/ CombinePooled
    \/ ForwardAgain

Spec == Init /\ [][Next]_vars

----------------------------------------------------------------------------
\* Vocabulary of the properties

\* The calls of one stack (k is "t", "v" or "c") among a log of calls.
CallsOf(log, k) == SelectSeq(log, LAMBDA e : e.k = k)
TextCalls == CallsOf(frame.executed, "t")
VisualCalls == CallsOf(frame.executed, "v")
FusionCalls == CallsOf(frame.executed, "c")
CountOf(log, k) == Len(CallsOf(log, k))

Indices(log) == [n \in 1..Len(log) |-> log[n].i]
UpTo(n) == [i \in 1..n |-> i - 1]

NonDecreasing(ids) == \A i \in 1..Len(ids) : \A j \in i..Len(ids) : ids[i] <= ids[j]

Started == encoder.built /\ pc \notin {"new", "constructed"}
FirstEntryDone == Started /\ frame.count >= 1

\* C1: on the first schedule entry every layer below the frozen boundary of
\* its stream runs exactly once, in increasing order, in no-gradient mode,
\* before any gradient-tracked layer of that stream.
FrozenPrefix(calls, k, fixed, depth) ==
    LET n == Min(fixed, depth)
        frozen == [i \in 1..n |-> Exec(k, i - 1, "no_grad")]
    IN /\ Len(calls) >= n
       /\ SubSeq(calls, 1, n) = frozen
       /\ \A i \in (n + 1)..Len(calls) : calls[i].mode = "grad"

C1_FrozenRangeRunsNoGrad ==
    FirstEntryDone =>
        /\ FrozenPrefix(TextCalls, "t", encoder.fixed_t_layer, encoder.layer)
        /\ FrozenPrefix(VisualCalls, "v", encoder.fixed_v_layer, encoder.v_layer)

\* C2: for a non-decreasing schedule whose checkpoints do not exceed the
\* stack depths and whose frozen boundaries do not exceed the first
\* checkpoint, a forward pass that returns has executed every text layer and
\* every visual layer exactly once, in increasing order.
WellFormedSchedule ==
    /\ NonDecreasing(encoder.t_biattention_id)
    /\ NonDecreasing(encoder.v_biattention_id)
    /\ \A i \in 1..Len(encoder.t_biattention_id) :
            encoder.t_biattention_id[i] <= encoder.layer
    /\ \A i \in 1..Len(encoder.v_biattention_id) :
            encoder.v_biattention_id[i] <= encoder.v_layer
    /\ ScheduleLen >= 1 =>
            /\ encoder.fixed_t_layer <= encoder.t_biattention_id[1]
            /\ encoder.fixed_v_layer <= encoder.v_biattention_id[1]

C2_FullDepthReached ==
    (pc = "returned" /\ WellFormedSchedule) =>
        /\ Indices(TextCalls) = UpTo(encoder.layer)
        /\ Indices(VisualCalls) = UpTo(encoder.v_layer)

\* C3: no text layer below fixed_t_layer and no visual layer below
\* fixed_v_layer is ever executed in gradient-tracked mode.
C3_FrozenNeverTracked ==
    \A n \in 1..Len(frame.executed) :
        LET e == frame.executed[n]
        IN /\ (e.k = "t" /\ e.i < encoder.fixed_t_layer) => e.mode = "no_grad"
           /\ (e.k = "v" /\ e.i < encoder.fixed_v_layer) => e.mode = "no_grad"

\* C4: a frozen boundary above its first checkpoint makes the forward pass
\* fail on the first schedule entry, before any layer or fusion block ran.
FirstBoundaryExceeded ==
    /\ encoder.built
    /\ ScheduleLen >= 1
    /\ \/ encoder.fixed_t_layer > encoder.t_biattention_id[1]
       \/ encoder.fixed_v_layer > encoder.v_biattention_id[1]

C4_BoundaryErrorFirst ==
    (FirstBoundaryExceeded /\ Started) =>
        /\ frame.executed = <<>>
        /\ frame.count = 0
        /\ pc \in {"loop", "failed"}
        /\ pc = "failed" => frame.err = "AssertionError"

C4_Witness ==
    /\ FirstBoundaryExceeded
    /\ encoder.fixed_t_layer <= encoder.t_biattention_id[1]
    /\ encoder.layer >= 1
    /\ encoder.t_biattention_id[1] >= 1
    /\ pc = "failed"

\* C5: a depth list that is not non-decreasing is rejected by
\* BertEncoder.__init__, so no forward pass starts with one.
C5_NonMonotoneRejected ==
    Started =>
        /\ NonDecreasing(config.t_biattention_id)
        /\ NonDecreasing(config.v_biattention_id)

\* C6: with a fusion_method other than "sum" and "mul" the error comes
\* before any tensor computation: no encoder layer is ever executed.
C6_UnsupportedFusionFailsFirst ==
    (call.entry \in {"ViLBERTExpert", "BertPreTrainingHeads"}
        /\ ~SupportedFusion(config.fusion_method)) =>
        frame.executed = <<>>

\* C7: with with_coattention = False the final output of each stream is its
\* full stack applied once each, in order, to its input embedding.  Stated
\* for the streams as they are at the return statement, on well-formed
\* schedules, where the claim asks least.
Applied(tensor) == [n \in 1..Len(tensor.hist) |-> <<tensor.hist[n].k, tensor.hist[n].i>>]
FullStack(k, depth) == [n \in 1..depth |-> <<k, n - 1>>]

C7_NoCoattentionIsPlainStacks ==
    (pc = "returned" /\ ~encoder.with_coattention /\ WellFormedSchedule) =>
        /\ Applied(frame.txt_embedding) = FullStack("t", encoder.layer)
        /\ Applied(frame.image_embedding) = FullStack("v", encoder.v_layer)

\* C8: with with_coattention = False no fusion block is ever invoked,
\* whatever the schedule length, in_batch_pairs and fast_mode.
C8_NoFusionWithoutCoattention ==
    ~config.with_coattention => FusionCalls = <<>>

C8_Witness ==
    /\ pc = "done"
    /\ ~encoder.with_coattention
    /\ encoder.in_batch_pairs
    /\ encoder.FAST_MODE
    /\ encoder.c_layer = MaxSched
    /\ frame.count = MaxSched
    /\ frame.batch_size >= 2

\* C9: the sequences ViLBERTBase.forward returns are the streams' states
\* after all remaining layers have run, for both values of
\* output_all_encoded_layers and every schedule.
C9_FinalSequencesReturned ==
    /\ pc = "failed" => frame.err # "IndexError"
    /\ pc \in {"pooled", "done"} =>
        /\ ret.sequence_output_t = frame.txt_embedding
        /\ ret.sequence_output_v = frame.image_embedding

\* C10: with output_all_encoded_layers each list gets one entry per schedule
\* entry, appended right after that entry's fusion step, and nothing at the
\* end; without it each list holds one entry, appended after all layers have
\* run.  Never both.
AppendedAfterEntry(n) ==
    LET a == frame.appends[n]
        before == SubSeq(frame.executed, 1, a.at)
    IN /\ a.kind = "entry"
       /\ encoder.with_coattention =>
            /\ a.at >= 1
            /\ frame.executed[a.at] = Exec("c", n - 1, "grad")
       /\ CountOf(frame.all_encoder_layers_t[n].hist, "t") = CountOf(before, "t")
       /\ CountOf(frame.all_encoder_layers_v[n].hist, "v") = CountOf(before, "v")
       /\ CountOf(frame.all_encoder_layers_t[n].hist, "c") = CountOf(before, "c")
       /\ CountOf(frame.all_encoder_layers_v[n].hist, "c") = CountOf(before, "c")

C10_LazyCollection ==
    pc = "returned" =>
        IF frame.output_all_encoded_layers
        THEN /\ Len(frame.appends) = ScheduleLen
             /\ Len(frame.all_encoder_layers_t) = ScheduleLen
             /\ Len(frame.all_encoder_layers_v) = ScheduleLen
             /\ \A n \in 1..ScheduleLen : AppendedAfterEntry(n)
        ELSE /\ frame.appends = <<[kind |-> "final", at |-> Len(frame.executed)]>>
             /\ frame.all_encoder_layers_t = <<frame.txt_embedding>>
             /\ frame.all_encoder_layers_v = <<frame.image_embedding>>

C10_Witness ==
    /\ pc = "returned"
    /\ frame.output_all_encoded_layers
    /\ encoder.with_coattention
    /\ ScheduleLen = MaxSched
    /\ Len(frame.appends) = MaxSched
    /\ Len(frame.executed) > frame.appends[MaxSched].at

\* C11: with in_batch_pairs and the same batch size B for both streams, once
\* the first schedule entry is over both streams and both masks have batch
\* size B * B, and entry j * B + k holds text example j with its mask and
\* visual example k with its mask.
PairedBatch(B) ==
    /\ Len(frame.txt_embedding.batch) = B * B
    /\ Len(frame.txt_attention_mask) = B * B
    /\ Len(frame.image_embedding.batch) = B * B
    /\ Len(frame.image_attention_mask) = B * B
    /\ \A j \in 0..(B - 1) : \A k \in 0..(B - 1) :
            /\ frame.txt_embedding.batch[j * B + k + 1] = j + 1
            /\ frame.txt_attention_mask[j * B + k + 1] = j + 1
            /\ frame.image_embedding.batch[j * B + k + 1] = k + 1
            /\ frame.image_attention_mask[j * B + k + 1] = k + 1

C11_AllPairsLayout ==
    (FirstEntryDone /\ encoder.in_batch_pairs /\ call.txt_batch = call.img_batch) =>
        PairedBatch(call.txt_batch)

C11_Witness ==
    /\ FirstEntryDone
    /\ encoder.in_batch_pairs
    /\ call.txt_batch = call.img_batch
    /\ call.txt_batch >= 2
    /\ frame.executed # <<>>
    /\ pc = "returned"

\* C12: with fast_mode and without in_batch_pairs, a text batch of 1 and a
\* visual batch of N, once the first schedule entry is over the text
\* sequence and its mask have batch size N, every slice being the one text
\* example, and the visual stream and its mask are as they were.
C12_FastModeBroadcast ==
    (FirstEntryDone /\ encoder.FAST_MODE /\ ~encoder.in_batch_pairs
        /\ call.txt_batch = 1) =>
        /\ frame.txt_embedding.batch = [n \in 1..call.img_batch |-> 1]
        /\ frame.txt_attention_mask = [n \in 1..call.img_batch |-> 1]
        /\ frame.image_embedding.batch = Ids(call.img_batch)
        /\ frame.image_attention_mask = Ids(call.img_batch)

C12_Witness ==
    /\ FirstEntryDone
    /\ encoder.FAST_MODE
    /\ ~encoder.in_batch_pairs
    /\ ~encoder.with_coattention
    /\ call.txt_batch = 1
    /\ call.img_batch >= 2
    /\ pc = "returned"

\* C13: a fusion block is never invoked on streams whose batch sizes differ:
\* when they differ as the first fusion block is about to run, the forward
\* pass fails instead.
C13_MismatchFailsLoudly ==
    \A n \in 1..Len(frame.fusion_inputs) :
        frame.fusion_inputs[n].txt = frame.fusion_inputs[n].img

\* C14: with neither in_batch_pairs nor fast_mode, the batch size of each
\* stream is at every step of the forward pass what it was at the input, and
\* each pooled vector has one row per example of its stream.
C14_ShapesPreserved ==
    (Started /\ ~encoder.in_batch_pairs /\ ~encoder.FAST_MODE) =>
        /\ Len(frame.txt_embedding.batch) = call.txt_batch
        /\ Len(frame.image_embedding.batch) = call.img_batch
        /\ pc \in {"pooled", "done"} =>
            /\ Len(ret.pooled_output_t) = Len(ret.sequence_output_t.batch)
            /\ Len(ret.pooled_output_v) = Len(ret.sequence_output_v.batch)
            /\ Len(ret.pooled_output_t) = call.txt_batch
            /\ Len(ret.pooled_output_v) = call.img_batch

\* C15: when hidden_size is not a multiple of num_attention_heads, or
\* v_hidden_size of v_num_attention_heads, or bi_hidden_size of
\* bi_num_attention_heads, BertEncoder.__init__ fails with a ValueError
\* whatever the stack depths and the schedule length, and no forward pass
\* runs.
HeadsDoNotDivide ==
    \/ config.hidden_size % config.num_attention_heads # 0
    \/ config.v_hidden_size % config.v_num_attention_heads # 0
    \/ config.bi_hidden_size % config.bi_num_attention_heads # 0

C15_IndivisibleHeadsRejected ==
    (HeadsDoNotDivide /\ pc # "new") =>
        /\ pc = "failed"
        /\ frame.err = "ValueError"
        /\ ~encoder.built
        /\ frame.executed = <<>>

C15_Witness ==
    /\ pc = "failed"
    /\ frame.err = "ValueError"
    /\ config.num_hidden_layers = 0
    /\ config.v_num_hidden_layers = 0
    /\ config.v_biattention_id = <<>>
    /\ config.hidden_size % config.num_attention_heads = 0
    /\ config.v_hidden_size % config.v_num_attention_heads = 0
    /\ config.bi_hidden_size % config.bi_num_attention_heads # 0

\* C16 as written: the additive bias of the text mask and of the image mask
\* is exactly 0 where the mask is 1 and exactly -10000 where the mask is 0.
BiasOf(mask, bias) ==
    /\ DOMAIN bias = DOMAIN mask
    /\ \A i \in DOMAIN mask : bias[i] = IF mask[i] = 1 THEN 0 ELSE -10000

C17_DiagnosticsOnlyOnRequest ==
    /\ ~config.visualization =>
            /\ frame.all_attention_mask_t = <<>>
            /\ frame.all_attnetion_mask_v = <<>>
            /\ frame.all_attention_mask_c = <<>>
    /\ (pc \in {"pooled", "done"} /\ ~call.output_all_attention_masks) =>
            ret.all_attention_mask_output = NoDiagnostics

C17_Witness ==
    /\ pc = "done"
    /\ ~config.visualization
    /\ call.output_all_attention_masks
    /\ ~ret.all_attention_mask_output.none
    /\ TextCalls # <<>>
    /\ VisualCalls # <<>>
    /\ FusionCalls # <<>>

\* C18: every call of BertEncoder.forward terminates: it returns its three
\* lists or fails with an error, whatever the schedule, the frozen
\* boundaries and the flags.
\* Stated with a measure: the number of steps a run can still take is a
\* natural number, and every step of the run makes it smaller.
Remaining ==
    LET entries == Min(Len(config.v_biattention_id), Len(config.t_biattention_id))
        pending == (call.calls - previous.calls - 1) * (entries + 5)
    IN CASE pc = "new" -> pending + entries + 5
         [] pc = "constructed" -> pending + entries + 4
         [] pc = "loop" -> pending + (entries - frame.count) + 3
         [] pc = "returned" -> pending + 2
         [] pc = "pooled" -> pending + 1
         [] pc = "done" -> pending
         [] pc = "failed" -> 0

C18_ForwardTerminates == [][Remaining' < Remaining /\ Remaining' >= 0]_vars

C18_Witness ==
    /\ pc = "returned"
    /\ ~NonDecreasing(encoder.t_biattention_id)
    /\ frame.count = MaxSched
    /\ encoder.with_coattention
    /\ Len(frame.executed) > MaxSched

\* C19: with with_coattention and non-decreasing depth lists, the fusion
\* block of entry i runs after every text layer below t_biattention_id[i]
\* and every visual layer below v_biattention_id[i] that runs at all, and
\* before every text layer at or above t_biattention_id[i] and every visual
\* layer at or above v_biattention_id[i].
FusedAtCheckpoint(p) ==
    LET i == frame.executed[p].i
        t_end == encoder.t_biattention_id[i + 1]
        v_end == encoder.v_biattention_id[i + 1]
    IN /\ CountOf(SubSeq(frame.executed, 1, p), "c") = i + 1
       /\ \A q \in 1..(p - 1) :
            /\ frame.executed[q].k = "t" => frame.executed[q].i < t_end
            /\ frame.executed[q].k = "v" => frame.executed[q].i < v_end
       /\ \A q \in (p + 1)..Len(frame.executed) :
            /\ frame.executed[q].k = "t" => frame.executed[q].i >= t_end
            /\ frame.executed[q].k = "v" => frame.executed[q].i >= v_end

C19_FusionAtCheckpoint ==
    (encoder.with_coattention /\ NonDecreasing(encoder.t_biattention_id)
        /\ NonDecreasing(encoder.v_biattention_id)) =>
        \A p \in 1..Len(frame.executed) :
            frame.executed[p].k = "c" => FusedAtCheckpoint(p)

C19_Witness ==
    /\ pc = "returned"
    /\ encoder.with_coattention
    /\ NonDecreasing(encoder.t_biattention_id)
    /\ NonDecreasing(encoder.v_biattention_id)
    /\ Len(FusionCalls) = MaxSched
    /\ frame.executed[1].k # "c"
    /\ frame.executed[Len(frame.executed)].k # "c"
    /\ \E p \in 2..Len(frame.executed) :
            frame.executed[p].k # "c" /\ frame.executed[p - 1].k = "c"
                /\ p < Len(frame.executed) /\ frame.executed[p + 1].k = "c"

\* C20 as written: with with_coattention, a forward pass that returns has
\* invoked every constructed fusion block exactly once, block i at schedule
\* entry i, for every pair of depth lists.
C20_EveryBlockInvokedOnce ==
    (pc = "returned" /\ encoder.with_coattention) =>
        Indices(FusionCalls) = UpTo(encoder.c_layer)

\* C20 amended: the same, for every pair of depth lists in which
\* t_biattention_id is at least as long as v_biattention_id.
C20_EveryScheduledBlockInvokedOnce ==
    (pc = "returned" /\ encoder.with_coattention
        /\ Len(encoder.t_biattention_id) >= Len(encoder.v_biattention_id)) =>
        Indices(FusionCalls) = UpTo(encoder.c_layer)

C20_Witness ==
    /\ pc = "returned"
    /\ encoder.with_coattention
    /\ Len(encoder.t_biattention_id) >= Len(encoder.v_biattention_id)
    /\ encoder.c_layer = MaxSched
    /\ ~NonDecreasing(encoder.v_biattention_id)
    /\ Len(FusionCalls) = MaxSched

\* C21: the co-attention mask handed to a fusion block, scaled by the fixed
\* multiplier, is added to the cross-stream attention scores, so a non-zero
\* mask changes what the block computes.
C21_CoAttentionMaskApplied ==
    /\ \A n \in 1..Len(frame.txt_embedding.fused) :
            frame.txt_embedding.fused[n].co_bias = frame.extended_co_attention_mask
    /\ \A n \in 1..Len(frame.image_embedding.fused) :
            frame.image_embedding.fused[n].co_bias = frame.extended_co_attention_mask

\* What a stream holds after fusion block n: the attention of its own queries
\* over the other stream's keys and values under the other stream's mask,
\* merged into its own residual.
CrossAttended(tensor, own, other) ==
    /\ tensor.stream = own
    /\ \A n \in 1..Len(tensor.fused) :
           /\ tensor.fused[n].queries = own
           /\ tensor.fused[n].keys = other
           /\ tensor.fused[n].mask = other
           /\ tensor.fused[n].residual = own

\* The stream has the length and width it was given, and every fusion block
\* returned it with the batch size it received it with.
ShapeKept(tensor, len, width) ==
    /\ tensor.len = len
    /\ tensor.width = width
    /\ \A n \in 1..Len(tensor.fused) :
           tensor.fused[n].output_batch = tensor.fused[n].input_batch

\* C24: a fusion block returns as text output the attention of the text
\* queries over the visual keys and values under the visual mask merged into
\* the text residual, and as visual output the mirror image; each returned
\* stream keeps its own batch size, length and width.
C24_CrossMergeKeepsShape ==
    Started =>
        /\ CrossAttended(frame.txt_embedding, "t", "v")
        /\ CrossAttended(frame.image_embedding, "v", "t")
        /\ ShapeKept(frame.txt_embedding, Len(call.attention_mask), config.hidden_size)
        /\ ShapeKept(frame.image_embedding, Len(call.image_attention_mask),
                     config.v_hidden_size)

\* The fast-mode steps taken so far.
FastModeSteps ==
    {n \in 1..Len(frame.reconciled) : frame.reconciled[n].step = "fast_mode"}

\* C22: the fast-mode step of the first entry changes the text sequence and
\* its mask only when the text batch is smaller than the visual batch; when
\* the text batch is equal or larger the step leaves both as they were and
\* raises nothing.
C22_FastModeOnlyWhenSmaller ==
    \A n \in FastModeSteps :
        LET r == frame.reconciled[n]
        IN /\ (r.txt_out # r.txt \/ r.txt_mask_out # r.txt_mask)
                => Len(r.txt) < Len(r.img)
           /\ Len(r.txt) >= Len(r.img)
                => r.txt_out = r.txt /\ r.txt_mask_out = r.txt_mask /\ ~r.raised

\* The batch axes a reconciliation step left are the all-pairs layout of B
\* text and B visual examples.
PairedLayout(r, B) ==
    /\ Len(r.txt_out) = B * B
    /\ Len(r.txt_mask_out) = B * B
    /\ Len(r.img_out) = B * B
    /\ Len(r.img_mask_out) = B * B
    /\ \A j \in 0..(B - 1) : \A k \in 0..(B - 1) :
            /\ r.txt_out[j * B + k + 1] = j + 1
            /\ r.txt_mask_out[j * B + k + 1] = j + 1
            /\ r.img_out[j * B + k + 1] = k + 1
            /\ r.img_mask_out[j * B + k + 1] = k + 1

\* C23: with in_batch_pairs and fast_mode both on, the fast-mode step that
\* follows the pairwise expansion changes neither stream nor mask and raises
\* nothing, so what enters the first fusion block is what pairwise expansion
\* alone produces: with B examples in each stream, batch size B * B with
\* text j and visual k at entry j * B + k.
C23_FastModeAfterPairsIsNoOp ==
    (Started /\ encoder.in_batch_pairs /\ encoder.FAST_MODE) =>
        \A n \in FastModeSteps :
            LET r == frame.reconciled[n]
            IN /\ n = 2
               /\ frame.reconciled[1].step = "in_batch_pairs"
               /\ ~r.raised
               /\ r.txt = frame.reconciled[1].txt_out
               /\ r.txt_mask = frame.reconciled[1].txt_mask_out
               /\ r.img = frame.reconciled[1].img_out
               /\ r.img_mask = frame.reconciled[1].img_mask_out
               /\ r.txt_out = r.txt
               /\ r.txt_mask_out = r.txt_mask
               /\ r.img_out = r.img
               /\ r.img_mask_out = r.img_mask
               /\ call.txt_batch = call.img_batch => PairedLayout(r, call.txt_batch)
               /\ \A m \in 1..Len(frame.fusion_inputs) :
                      /\ frame.fusion_inputs[m].txt = Len(r.txt_out)
                      /\ frame.fusion_inputs[m].img = Len(r.img_out)

C23_Witness ==
    /\ encoder.in_batch_pairs
    /\ encoder.FAST_MODE
    /\ FastModeSteps # {}
    /\ call.txt_batch = call.img_batch
    /\ call.txt_batch >= 2
    /\ frame.fusion_inputs # <<>>
    /\ pc = "returned"

\* C25: BertEncoder.forward keeps nothing from one call to the next: every
\* call starts its cursors at (0, 0, 0), no step of a call changes the
\* depth lists, the frozen boundaries or the flags of the encoder, and a
\* second call with the same configuration and inputs makes the same
\* sequence of layer and fusion calls as the first.
C25_NoStateAcrossCalls ==
    [][/\ (pc = "constructed" /\ pc' = "loop") =>
            /\ frame'.t_start = 0
            /\ frame'.v_start = 0
            /\ frame'.count = 0
            /\ frame'.executed = <<>>
       /\ encoder.built => encoder' = encoder
       /\ (previous.calls >= 1 /\ pc' \in {"returned", "failed"}) =>
            frame'.executed = previous.executed]_vars

C25_Witness ==
    /\ previous.calls = 1
    /\ pc = "returned"
    /\ Len(TextCalls) >= 2
    /\ Len(FusionCalls) >= 1
    /\ frame.reconciled # <<>>

\* No layer index occurs twice in a log of calls.
NoRepeat(log) ==
    \A m \in 1..Len(log) : \A n \in 1..Len(log) : log[m].i = log[n].i => m = n

\* C26: in a forward pass that completes without an assertion failure,
\* whatever the schedule (monotone or not), no self-attention layer of the
\* text stack and none of the visual stack is executed more than once.
C26_NoLayerExecutedTwice ==
    (Started /\ frame.err # "AssertionError") =>
        /\ NoRepeat(TextCalls)
        /\ NoRepeat(VisualCalls)

\* C27: at every invocation of a visual layer, the text sequence and the
\* text mask handed over for the dynamic gate have the same batch size, and
\* that size is the visual batch size or broadcasts to it; also for the
\* visual layers invoked after a reconciliation step.
C27_GateInputsAgree ==
    config.dynamic_attention =>
        \A n \in 1..Len(frame.gating_inputs) :
            LET g == frame.gating_inputs[n]
            IN /\ g.txt_embedding = g.txt_attention_mask
               /\ BroadcastOK({g.txt_embedding, g.hidden_states})

\* The calls that changed the text sequence before a visual layer of entry
\* count ran, if every text layer of that entry ran before it: the text
\* layers and fusion blocks of the entries before, and the text layers of
\* the entry itself (none, for a visual layer of the tail).
TextStateAt(count) ==
    {p \in 1..Len(frame.executed) :
        /\ frame.executed[p].k \in {"t", "c"}
        /\ \/ frame.executed_in[p] < count
           \/ /\ frame.executed_in[p] = count
              /\ count < ScheduleLen
              /\ frame.executed[p].k = "t"}

\* C28: within a schedule entry every text layer (the frozen ones, then the
\* trainable ones) is executed before every visual layer of the entry, so
\* these visual layers are handed the text sequence at the entry's text
\* checkpoint; after the schedule every remaining visual layer is executed
\* before any remaining text layer, so the visual layers of the tail are
\* handed the text sequence as the last entry left it.
C28_TextBeforeVisualThenVisualBeforeText ==
    Started =>
        /\ \A p \in 1..Len(frame.executed) : \A q \in (p + 1)..Len(frame.executed) :
              frame.executed_in[p] = frame.executed_in[q] =>
                 IF frame.executed_in[p] < ScheduleLen
                 THEN /\ ~(frame.executed[p].k = "v" /\ frame.executed[q].k = "t")
                      /\ ~(/\ frame.executed[p].k = "t"
                           /\ frame.executed[q].k = "t"
                           /\ frame.executed[p].mode = "grad"
                           /\ frame.executed[q].mode = "no_grad")
                 ELSE ~(frame.executed[p].k = "t" /\ frame.executed[q].k = "v")
        /\ \A n \in 1..Len(frame.gating_inputs) :
              frame.gating_inputs[n].state =
                  Cardinality(TextStateAt(frame.gating_inputs[n].count))

C28_Witness ==
    /\ pc = "returned"
    /\ config.dynamic_attention
    /\ \E p \in 1..Len(frame.executed) : \E q \in (p + 1)..Len(frame.executed) :
          /\ frame.executed_in[p] = 0 /\ frame.executed_in[q] = 0
          /\ 0 < ScheduleLen
          /\ frame.executed[p].k = "t" /\ frame.executed[q].k = "v"
    /\ \E p \in 1..Len(frame.executed) : \E q \in (p + 1)..Len(frame.executed) :
          /\ frame.executed_in[p] = ScheduleLen /\ frame.executed_in[q] = ScheduleLen
          /\ frame.executed[p].k = "v" /\ frame.executed[q].k = "t"

\* Reconciliation step n ran in the first entry, once the text and visual
\* layers of that entry had run and before any fusion block.
InFirstEntryBeforeFusion(n) ==
    LET r == frame.reconciled[n]
    IN /\ r.count = 0
       /\ \A p \in 1..Len(frame.executed) :
             IF p <= r.position
             THEN frame.executed[p].k \in {"t", "v"} /\ frame.executed_in[p] = 0
             ELSE frame.executed[p].k = "c" \/ frame.executed_in[p] >= 1

\* C29: each batch reconciliation step is taken at most once in a forward
\* pass, in the first schedule entry, after the layers of that entry and
\* before the first fusion block; with an empty schedule none is taken
\* whatever the flags, and the batch sizes that come out are those that
\* went in.
C29_ReconciledOnceInFirstEntry ==
    Started =>
        /\ \A m \in 1..Len(frame.reconciled) : \A n \in 1..Len(frame.reconciled) :
              frame.reconciled[m].step = frame.reconciled[n].step => m = n
        /\ \A n \in 1..Len(frame.reconciled) : InFirstEntryBeforeFusion(n)
        /\ ScheduleLen = 0 =>
              /\ frame.reconciled = <<>>
              /\ Len(frame.txt_embedding.batch) = call.txt_batch
              /\ Len(frame.image_embedding.batch) = call.img_batch

====
